---- MODULE Spec2Model ----
(***************************************************************************)
(* KOLMO daily pipeline: provider fallback manager, four-stage pipeline    *)
(* (acquire, persist raw, compute, persist derived), the two tables        *)
(* mcol1_external_data / mcol1_compute_data keyed by date, the historical  *)
(* backfill script, and the functions of the computation core.             *)
(*                                                                         *)
(* Decimal values are modelled as exact rationals <<n, d>> with d > 0; a   *)
(* NULL (Python None, SQL NULL) is the pair <<0, 0>>.  The quotes offered  *)
(* by the adapters are chosen so that every rate and distance is exact in  *)
(* 28 significant digits, as in the Decimal context of the code; the       *)
(* rounding of that context is not modelled (the quote (1, 3) of           *)
(* CalcQuotes is kept exact), the quantize calls of the backfill are.      *)
(***************************************************************************)
EXTENDS Integers, Sequences, FiniteSets, TLC

\* ------------------------------------------------------------------ bounds
\* calendar dates are 1..MaxDate
MaxDate == 2
\* pipeline runs started in one behaviour (scheduled job, manual triggers)
MaxRuns == 2

Dates == 1..MaxDate
Runs == 1..MaxRuns

\* ---------------------------------------------------------------- decimals
Null == <<0, 0>>

IsNull(x) == x[2] = 0

Abs(n) == IF n < 0 THEN -n ELSE n

RECURSIVE GCD(_, _)
GCD(a, b) == IF b = 0 THEN a ELSE GCD(b, a % b)

\* canonical form of the rational n/d, d # 0
Rat(n, d) ==
    LET g == GCD(Abs(n), Abs(d))
        s == IF d < 0 THEN -1 ELSE 1
    IN  <<(s * n) \div g, (s * d) \div g>>

Dec(n) == <<n, 1>>

RMul(a, b) == Rat(a[1] * b[1], a[2] * b[2])
RDiv(a, b) == Rat(a[1] * b[2], a[2] * b[1])
RSub(a, b) == Rat(a[1] * b[2] - b[1] * a[2], a[2] * b[2])
RAbs(a) == <<Abs(a[1]), a[2]>>
RLt(a, b) == a[1] * b[2] < b[1] * a[2]
RGt(a, b) == RLt(b, a)

\* ------------------------------------------------------------- transformer
\* RateTransformer.DIMENSIONAL_TOLERANCE = Decimal("0.05")
DIMENSIONAL_TOLERANCE == Rat(5, 100)

\* the rates transform first assigns (r_uome = 1 / eur_cny, r_me4u =
\* eur_cny / eur_usd), returned without the check of their product
transform_first_assignment(eur_usd, eur_cny) ==
    [ok |-> TRUE, r_me4u |-> RDiv(eur_cny, eur_usd), r_iou2 |-> RDiv(Dec(1), eur_usd),
     r_uome |-> RDiv(Dec(1), eur_cny)]

\* RateTransformer.transform: the three KOLMO rates of a pair of EUR quotes,
\* or a ValueError when the product of the fresh rates is off by more than
\* the tolerance.
transform(eur_usd, eur_cny) ==
    LET r_me4u == RDiv(eur_usd, eur_cny)
        r_iou2 == RDiv(Dec(1), eur_usd)
        r_uome == eur_cny
        kolmo_value == RMul(RMul(r_me4u, r_iou2), r_uome)
        deviation == RAbs(RSub(kolmo_value, Dec(1)))
    IN  IF RGt(deviation, DIMENSIONAL_TOLERANCE)
        THEN [ok |-> FALSE, r_me4u |-> Null, r_iou2 |-> Null, r_uome |-> Null]
        ELSE [ok |-> TRUE, r_me4u |-> r_me4u, r_iou2 |-> r_iou2, r_uome |-> r_uome]

\* -------------------------------------------------------------- calculator
WARN_THRESHOLD == Rat(1, 100)
CRITICAL_THRESHOLD == Rat(5, 100)

compute_kolmo_value(r_me4u, r_iou2, r_uome) == RMul(RMul(r_me4u, r_iou2), r_uome)

compute_deviation(kolmo_value) == RAbs(RSub(kolmo_value, Dec(1)))

compute_state(kolmo_value) ==
    LET deviation == compute_deviation(kolmo_value)
    IN  IF RLt(deviation, WARN_THRESHOLD) THEN "OK"
        ELSE IF RLt(deviation, CRITICAL_THRESHOLD) THEN "WARN"
        ELSE "CRITICAL"

compute_distance(rate) == RMul(RAbs(RSub(rate, Dec(1))), Dec(100))

\* a relative path measured from today's distance to yesterday's
relativepath_reversed(dist_current, dist_previous) ==
    IF IsNull(dist_previous) \/ dist_previous = Dec(0)
    THEN Null
    ELSE RMul(RDiv(RSub(dist_current, dist_previous), dist_previous), Dec(100))

compute_relativepath(dist_current, dist_previous) ==
    IF IsNull(dist_previous) \/ dist_previous = Dec(0)
    THEN Null
    ELSE RMul(RDiv(RSub(dist_previous, dist_current), dist_previous), Dec(100))

\* ------------------------------------------------------------------ winner
\* WinnerSelector.ALPHABETICAL_ORDER; sorted() of coin names follows it
ALPHABETICAL_ORDER == <<"IOU2", "ME4U", "UOME">>

\* float(x) of a Decimal: the double nearest to x, which is x itself exactly
\* when x is a binary fraction (every numerator of the model fits 53 bits);
\* float_of(None) stands for the None the reason carries instead
RECURSIVE IsPowerOfTwo(_)
IsPowerOfTwo(d) == d = 1 \/ (d > 1 /\ d % 2 = 0 /\ IsPowerOfTwo(d \div 2))

float_of(x) ==
    IF IsNull(x) THEN [nearest_to |-> Null, exact |-> TRUE]
    ELSE [nearest_to |-> x, exact |-> IsPowerOfTwo(x[2])]

\* a selector that takes the alphabetically last of the tied coins
last_tied(tied_coins) == tied_coins[Len(tied_coins)]

\* winner_str = tied_coins[0]
first_tied(tied_coins) == tied_coins[1]

\* a selector that reports a maximum of zero as positive
rule_zero_positive(max_relpath) ==
    IF ~RLt(max_relpath, Dec(0))
    THEN "max_positive_alphabetical_tiebreak"
    ELSE "least_negative"

\* the selection rule reported for the maximum of the candidates
rule_of(max_relpath) ==
    IF RGt(max_relpath, Dec(0))
    THEN "max_positive_alphabetical_tiebreak"
    ELSE "least_negative"

\* WinnerSelector.select: the winner and the WinnerReason
select(relpath_me4u, relpath_iou2, relpath_uome) ==
    LET val == [c \in {"IOU2", "ME4U", "UOME"} |->
                   CASE c = "ME4U" -> relpath_me4u
                     [] c = "IOU2" -> relpath_iou2
                     [] c = "UOME" -> relpath_uome]
        candidates == {c \in DOMAIN val : ~IsNull(val[c])}
    IN  IF candidates = {}
        THEN [winner |-> "IOU2",
              reason |-> [me4u_relpath |-> float_of(Null),
                          iou2_relpath |-> float_of(Null),
                          uome_relpath |-> float_of(Null),
                          max_relpath |-> float_of(Null), tied_coins |-> <<>>,
                          selection_rule |-> "default_first_day",
                          winner |-> "IOU2"]]
        ELSE
          LET max_relpath ==
                  val[CHOOSE c \in candidates :
                          \A o \in candidates : ~RLt(val[c], val[o])]
              tied_coins ==
                  SelectSeq(ALPHABETICAL_ORDER,
                            LAMBDA c : c \in candidates /\ val[c] = max_relpath)
              winner == first_tied(tied_coins)
          IN  [winner |-> winner,
               reason |-> [me4u_relpath |-> float_of(relpath_me4u),
                           iou2_relpath |-> float_of(relpath_iou2),
                           uome_relpath |-> float_of(relpath_uome),
                           max_relpath |-> float_of(max_relpath),
                           tied_coins |-> tied_coins,
                           selection_rule |-> rule_of(max_relpath),
                           winner |-> winner]]

\* --------------------------------------------------------------- providers
\* ProviderManager.providers, in priority order
Providers == <<"frankfurter", "cbr", "twelvedata">>

\* the basis of the two required quotes in the dict an adapter returns: the
\* keys are eur_usd, eur_cny (cbr) or rub_usd, rub_cny (frankfurter,
\* twelvedata)
AdapterBasis(name) == IF name = "cbr" THEN "eur" ELSE "rub"

\* the basis of the keys stage 2 reads from the dict and of the keyword
\* arguments it passes to ExternalDataCreate
Stage2Basis == "eur"

\* the basis of the required fields of the record ExternalDataCreate
RecordBasis == "rub"

\* the basis of the arguments of RateTransformer.transform, which
\* compute_daily_metrics reads from external_data.eur_usd and .eur_cny
TransformBasis == "eur"

\* stop_after_attempt(3) of the tenacity decorator of every fetch_rates
STOP_AFTER_ATTEMPT == 3

\* error_type values an adapter body puts in the RateProviderError it raises
ErrorTypes == {"TIMEOUT", "PARSE_ERROR"}

\* pairs <<eur_usd, eur_cny>> an upstream source may quote
Quotes == {<<Dec(1), Dec(2)>>, <<Dec(2), Dec(4)>>}

NoQuote == <<Null, Null>>

\* one execution of an adapter's undecorated fetch_rates body: the rates, or
\* a RateProviderError carrying provider and error_type
BodyOutcomes(name) ==
    [ok : {TRUE}, rates : Quotes, provider : {name}, error_type : {""}]
    \cup [ok : {FALSE}, rates : {NoQuote}, provider : {name}, error_type : ErrorTypes]

\* a decorator that lets the body run once more after the third failure
retrying_without_stop(last, tries) ==
    IF last.ok
    THEN [cls |-> "return", rates |-> last.rates, provider |-> last.provider,
          error_type |-> "", tries |-> tries]
    ELSE [cls |-> "RetryError", rates |-> NoQuote, provider |-> last.provider,
          error_type |-> last.error_type, tries |-> tries + 1]

\* what the decorated fetch_rates hands to its caller when its last execution
\* ended in `last` after `tries` executions: tenacity retries on any
\* exception and, reraise not being set, raises RetryError once the attempts
\* are used up
Retrying(last, tries) ==
    IF last.ok
    THEN [cls |-> "return", rates |-> last.rates, provider |-> last.provider,
          error_type |-> "", tries |-> tries]
    ELSE [cls |-> "RetryError", rates |-> NoQuote, provider |-> last.provider,
          error_type |-> last.error_type, tries |-> tries]

\* the results of one call client.fetch_rates(date)
FetchRates(name) ==
    {Retrying(last, tries) : last \in {b \in BodyOutcomes(name) : b.ok},
                             tries \in 1..STOP_AFTER_ATTEMPT}
    \cup {Retrying(last, STOP_AFTER_ATTEMPT) :
              last \in {b \in BodyOutcomes(name) : ~b.ok}}

\* a row numbered from 0, as enumerate(self.provider_order) without start=1
\* would number it
StatsRowZeroBased(date, provider, attempt_order, success, error_type) ==
    [date |-> date, provider_name |-> provider, attempt_order |-> attempt_order - 1,
     success |-> success, error_type |-> error_type]

\* the row _log_stats inserts into mcol1_provider_stats (latency left out)
StatsRow(date, provider, attempt_order, success, error_type) ==
    [date |-> date, provider_name |-> provider, attempt_order |-> attempt_order,
     success |-> success, error_type |-> error_type]

\* a _log_stats without its try/except: the exception of the insert leaves it
_log_stats_raising(rows, row, sink_ok) ==
    IF sink_ok
    THEN [rows |-> Append(rows, row), raised |-> FALSE]
    ELSE [rows |-> rows, raised |-> TRUE]

\* ProviderManager._log_stats: the rows of the table after the call; an
\* exception of the insert is caught and logged, and nothing is raised
\* (raised is the exception that leaves _log_stats)
_log_stats(rows, row, sink_ok) ==
    IF sink_ok
    THEN [rows |-> Append(rows, row), raised |-> FALSE]
    ELSE [rows |-> rows, raised |-> FALSE]

\* the except clause of fetch_with_fallback that handles the outcome of
\* client.fetch_rates: "success", "RateProviderError" or "Exception"
HandlerOf(res) ==
    CASE res.cls = "return" -> "success"
      [] res.cls = "RateProviderError" -> "RateProviderError"
      [] OTHER -> "Exception"

\* error_type passed to _log_stats by the handler
LoggedErrorType(res) ==
    CASE HandlerOf(res) = "success" -> ""
      [] HandlerOf(res) = "RateProviderError" -> res.error_type
      [] OTHER -> "UNKNOWN"

\* result of fetch_with_fallback: a return value (rates, name) or the
\* RuntimeError raised, with the (provider, error_type) list its message holds
FetchReturn(rates, name) ==
    [ok |-> TRUE, rates |-> rates, provider |-> name, failures |-> <<>>]
FetchRaise(failures) ==
    [ok |-> FALSE, rates |-> NoQuote, provider |-> "", failures |-> failures]
NoFetch == [ok |-> FALSE, rates |-> NoQuote, provider |-> "", failures |-> <<>>]

\* locals of one fetch_with_fallback call, with the history of the call:
\* invoked = adapters called, surfaced = what each call handed back,
\* calls = the _log_stats calls made
NoCall == [idx |-> 0, errors |-> <<>>, invoked |-> <<>>, surfaced |-> <<>>,
           calls |-> <<>>, sink |-> <<>>]
NewCall == [NoCall EXCEPT !.idx = 1]

\* a loop that goes on to the next adapter after a success
LoopExitTryingAll(handler, idx) ==
    CASE idx = Len(Providers) /\ handler = "success" -> "return"
      [] idx = Len(Providers) -> "raise"
      [] OTHER -> "continue"

\* how a pass of the loop of fetch_with_fallback ends for the adapter at
\* position idx: return after a success, raise after the failure of the last
\* adapter, continue with the next adapter otherwise
LoopExit(handler, idx) ==
    CASE handler = "success" -> "return"
      [] idx = Len(Providers) -> "raise"
      [] OTHER -> "continue"

\* one pass of the loop body of fetch_with_fallback for the adapter at
\* position m.idx that handed back res, the telemetry insert working iff
\* sink_ok: the locals afterwards, the telemetry rows, and the outcome of the
\* call once it ends (an exception leaving _log_stats would leave the call)
Iteration(m, date, rows, res, sink_ok) ==
    LET name == Providers[m.idx]
        handler == HandlerOf(res)
        row == StatsRow(date, name, m.idx, handler = "success", LoggedErrorType(res))
        log == _log_stats(rows, row, sink_ok)
        errors == IF handler = "RateProviderError"
                  THEN Append(m.errors, <<res.provider, res.error_type>>)
                  ELSE m.errors
        exit == LoopExit(handler, m.idx)
        m2 == [m EXCEPT !.errors = errors,
                        !.invoked = Append(@, name),
                        !.surfaced = Append(@, res),
                        !.calls = Append(@, row),
                        !.sink = Append(@, sink_ok)]
    IN  CASE log.raised ->
               [m |-> m2, rows |-> log.rows, ended |-> TRUE, out |-> FetchRaise(<<>>)]
          [] exit = "return" ->
               [m |-> m2, rows |-> log.rows, ended |-> TRUE,
                out |-> FetchReturn(res.rates, name)]
          [] exit = "raise" /\ handler = "RateProviderError" ->
               [m |-> m2, rows |-> log.rows, ended |-> TRUE, out |-> FetchRaise(errors)]
          [] exit = "raise" ->
               [m |-> m2, rows |-> log.rows, ended |-> TRUE, out |-> FetchRaise(<<>>)]
          [] OTHER ->
               [m |-> [m2 EXCEPT !.idx = @ + 1], rows |-> log.rows, ended |-> FALSE,
                out |-> NoFetch]

\* ------------------------------------------------------------------ tables
\* a table is a function from the dates that have a row to the row

\* ExternalDataCreate as run_daily_pipeline builds it and stage 2 and 3 read
\* it (the optional eur_rub, eur_inr, eur_aed are passed through unread)
ExternalDataCreate(date, rates, id, provider) ==
    [date |-> date, eur_usd |-> rates[1], eur_cny |-> rates[2],
     mcol1_snapshot_id |-> id, trace_id |-> id, provider |-> provider]

NoExternal == ExternalDataCreate(0, NoQuote, 0, "")

\* an upsert that on a conflict multiplies the stored eur_usd by the new one
persist_external_accumulating(table, data) ==
    IF data.date \in DOMAIN table
    THEN [table EXCEPT ![data.date] =
             [@ EXCEPT !.eur_usd = RMul(@, data.eur_usd), !.eur_cny = data.eur_cny,
                       !.provider = data.provider]]
    ELSE (data.date :> [eur_usd |-> data.eur_usd, eur_cny |-> data.eur_cny,
                        mcol1_snapshot_id |-> data.mcol1_snapshot_id,
                        trace_id |-> data.trace_id, provider |-> data.provider])
         @@ table

\* persist_external_data: INSERT ... ON CONFLICT (date) DO UPDATE SET the
\* quotes and sources; the snapshot and trace ids of an existing row stay
persist_external_data(table, data) ==
    IF data.date \in DOMAIN table
    THEN [table EXCEPT ![data.date] =
             [@ EXCEPT !.eur_usd = data.eur_usd, !.eur_cny = data.eur_cny,
                       !.provider = data.provider]]
    ELSE (data.date :> [eur_usd |-> data.eur_usd, eur_cny |-> data.eur_cny,
                        mcol1_snapshot_id |-> data.mcol1_snapshot_id,
                        trace_id |-> data.trace_id, provider |-> data.provider])
         @@ table

\* the columns persist_compute_data sets on a conflict
ComputeValueFields ==
    {"r_me4u", "r_iou2", "r_uome", "kolmo_value", "kolmo_deviation", "kolmo_state",
     "dist_me4u", "dist_iou2", "dist_uome",
     "relpath_me4u", "relpath_iou2", "relpath_uome", "winner", "winner_reason"}

\* the columns persist_compute_data inserts
ComputeFields ==
    ComputeValueFields
    \cup {"mcol1_snapshot_id", "mcol1_snapshot_compute_id", "trace_compute_id"}

\* persist_compute_data: INSERT ... ON CONFLICT (date) DO UPDATE SET the value
\* columns; the three ids of an existing row stay
persist_compute_data(table, data) ==
    IF data.date \in DOMAIN table
    THEN [table EXCEPT ![data.date] =
             [f \in ComputeFields |->
                 IF f \in ComputeValueFields THEN data[f] ELSE @[f]]]
    ELSE (data.date :> [f \in ComputeFields |-> data[f]]) @@ table

\* ------------------------------------------------------------------ engine
NoDistances == [dist_me4u |-> Null, dist_iou2 |-> Null, dist_uome |-> Null]

\* ComputationEngine._get_previous_distances: the distances of the row of
\* MAX(date) below current_date; no row, or an exception of the query (which
\* is caught and logged), gives three None
_get_previous_distances(table, current_date, query_ok) ==
    LET earlier == {d \in DOMAIN table : d < current_date}
    IN  IF query_ok /\ earlier # {}
        THEN LET row == table[CHOOSE d \in earlier : \A e \in earlier : e <= d]
             IN  [dist_me4u |-> row.dist_me4u, dist_iou2 |-> row.dist_iou2,
                  dist_uome |-> row.dist_uome]
        ELSE NoDistances

NoCompute ==
    [date |-> 0, r_me4u |-> Null, r_iou2 |-> Null, r_uome |-> Null,
     kolmo_value |-> Null, kolmo_deviation |-> Null, kolmo_state |-> "",
     dist_me4u |-> Null, dist_iou2 |-> Null, dist_uome |-> Null,
     relpath_me4u |-> Null, relpath_iou2 |-> Null, relpath_uome |-> Null,
     winner |-> "", winner_reason |-> select(Null, Null, Null).reason,
     mcol1_snapshot_id |-> 0, mcol1_snapshot_compute_id |-> 0,
     trace_compute_id |-> 0]

\* a record type with the field constraints only
ComputeDataUnvalidated(c) ==
    /\ RGt(c.r_me4u, Dec(0)) /\ RGt(c.r_iou2, Dec(0)) /\ RGt(c.r_uome, Dec(0))
    /\ ~RLt(c.kolmo_deviation, Dec(0))

\* ComputeDataCreate.validate_kolmo_exact_product and the field constraints
ComputeDataValid(c) ==
    /\ c.kolmo_value = RMul(RMul(c.r_me4u, c.r_iou2), c.r_uome)
    /\ RGt(c.r_me4u, Dec(0)) /\ RGt(c.r_iou2, Dec(0)) /\ RGt(c.r_uome, Dec(0))
    /\ ~RLt(c.kolmo_deviation, Dec(0))

\* ComputationEngine.compute_daily_metrics: the ComputeDataCreate of
\* external_data given the compute table at the time of the lookup; raised
\* when the transformer or the record validation raises
compute_daily_metrics(external_data, table, query_ok, id) ==
    LET rates == transform(external_data.eur_usd, external_data.eur_cny)
        kolmo_value == compute_kolmo_value(rates.r_me4u, rates.r_iou2, rates.r_uome)
        dist_me4u == compute_distance(rates.r_me4u)
        dist_iou2 == compute_distance(rates.r_iou2)
        dist_uome == compute_distance(rates.r_uome)
        prev == _get_previous_distances(table, external_data.date, query_ok)
        relpath_me4u == compute_relativepath(dist_me4u, prev.dist_me4u)
        relpath_iou2 == compute_relativepath(dist_iou2, prev.dist_iou2)
        relpath_uome == compute_relativepath(dist_uome, prev.dist_uome)
        sel == select(relpath_me4u, relpath_iou2, relpath_uome)
        data == [date |-> external_data.date,
                 r_me4u |-> rates.r_me4u, r_iou2 |-> rates.r_iou2,
                 r_uome |-> rates.r_uome,
                 kolmo_value |-> kolmo_value,
                 kolmo_deviation |-> compute_deviation(kolmo_value),
                 kolmo_state |-> compute_state(kolmo_value),
                 dist_me4u |-> dist_me4u, dist_iou2 |-> dist_iou2,
                 dist_uome |-> dist_uome,
                 relpath_me4u |-> relpath_me4u, relpath_iou2 |-> relpath_iou2,
                 relpath_uome |-> relpath_uome,
                 winner |-> sel.winner, winner_reason |-> sel.reason,
                 mcol1_snapshot_id |-> external_data.mcol1_snapshot_id,
                 mcol1_snapshot_compute_id |-> id, trace_compute_id |-> id]
    IN  IF rates.ok /\ ComputeDataValid(data)
        THEN [raised |-> FALSE, data |-> data, prev |-> prev]
        ELSE [raised |-> TRUE, data |-> NoCompute, prev |-> prev]

\* ---------------------------------------------------------------- backfill
\* scripts/backfill_historical.py

\* days per range request
BATCH_SIZE == 30

\* Decimal("0.000001") and Decimal("0.0001") as the number of units in 1
PRECISION_6 == 1000000
PRECISION_4 == 10000

\* x.quantize(unit, rounding=ROUND_HALF_UP) for x >= 0, unit = 1 / units; a
\* value that is a multiple of the unit keeps its value
Quantize(x, units) ==
    IF units % x[2] = 0 THEN x
    ELSE Rat((2 * x[1] * units + x[2]) \div (2 * x[2]), units)

\* HistoricalBackfill._compute_relativepath
_compute_relativepath(dist_curr, dist_prev) ==
    IF IsNull(dist_prev) \/ dist_prev = Dec(0)
    THEN Null
    ELSE RMul(RDiv(RSub(dist_prev, dist_curr), dist_prev), Dec(100))

\* HistoricalBackfill._compute_volatility
_compute_volatility(rate_curr, rate_prev) ==
    IF IsNull(rate_prev) \/ rate_prev = Dec(0)
    THEN Null
    ELSE RMul(RDiv(RSub(rate_curr, rate_prev), rate_prev), Dec(100))

\* HistoricalBackfill._select_winner: the winner and the reason dictionary;
\* sorting by (-relpath, coin) puts the alphabetically first of the greatest
\* first
_select_winner(relpath_me4u, relpath_iou2, relpath_uome) ==
    LET val == [c \in {"IOU2", "ME4U", "UOME"} |->
                   CASE c = "ME4U" -> relpath_me4u
                     [] c = "IOU2" -> relpath_iou2
                     [] c = "UOME" -> relpath_uome]
        candidates == {c \in DOMAIN val : ~IsNull(val[c])}
        positive == {c \in candidates : RGt(val[c], Dec(0))}
        First(S) == LET top == {c \in S : \A o \in S : ~RLt(val[c], val[o])}
                    IN  SelectSeq(ALPHABETICAL_ORDER, LAMBDA c : c \in top)[1]
        Reason(winner, rule) ==
            [me4u_relpath |-> float_of(relpath_me4u),
             iou2_relpath |-> float_of(relpath_iou2),
             uome_relpath |-> float_of(relpath_uome),
             selection_rule |-> rule, winner |-> winner]
    IN  CASE candidates = {} ->
               [winner |-> "IOU2", reason |-> Reason("IOU2", "default_first_day")]
          [] positive # {} ->
               [winner |-> First(positive),
                reason |-> Reason(First(positive),
                                  "max_positive_alphabetical_tiebreak")]
          [] OTHER ->
               [winner |-> First(candidates),
                reason |-> Reason(First(candidates), "least_negative")]

\* the state compute_kolmo_metrics gives a kolmo_deviation, which it holds
\* in percent
backfill_state(kolmo_deviation) ==
    LET abs_deviation == RAbs(kolmo_deviation)
    IN  IF ~RGt(abs_deviation, Dec(1)) THEN "OK"
        ELSE IF ~RGt(abs_deviation, Dec(5)) THEN "WARN"
        ELSE "CRITICAL"

NoRates == [r_me4u |-> Null, r_iou2 |-> Null, r_uome |-> Null]

\* HistoricalBackfill.compute_kolmo_metrics; raised when a division by a
\* zero quote raises
compute_kolmo_metrics(eur_usd, eur_cny, prev_dist, prev_r) ==
    IF eur_usd = Dec(0) \/ eur_cny = Dec(0)
    THEN [raised |-> TRUE]
    ELSE
      LET r_me4u == Quantize(RDiv(eur_usd, eur_cny), PRECISION_6)
          r_iou2 == Quantize(RDiv(Dec(1), eur_usd), PRECISION_6)
          r_uome == Quantize(eur_cny, PRECISION_6)
          kolmo_value == RMul(RMul(r_me4u, r_iou2), r_uome)
          kolmo_deviation == RMul(RSub(kolmo_value, Dec(1)), Dec(100))
          dist_me4u == Quantize(RMul(RAbs(RSub(r_me4u, Dec(1))), Dec(100)), PRECISION_4)
          dist_iou2 == Quantize(RMul(RAbs(RSub(r_iou2, Dec(1))), Dec(100)), PRECISION_4)
          dist_uome == Quantize(RMul(RAbs(RSub(r_uome, Dec(1))), Dec(100)), PRECISION_4)
          relpath_me4u == _compute_relativepath(dist_me4u, prev_dist.dist_me4u)
          relpath_iou2 == _compute_relativepath(dist_iou2, prev_dist.dist_iou2)
          relpath_uome == _compute_relativepath(dist_uome, prev_dist.dist_uome)
          sel == _select_winner(relpath_me4u, relpath_iou2, relpath_uome)
      IN  [raised |-> FALSE,
           r_me4u |-> r_me4u, r_iou2 |-> r_iou2, r_uome |-> r_uome,
           kolmo_value |-> kolmo_value, kolmo_deviation |-> kolmo_deviation,
           kolmo_state |-> backfill_state(kolmo_deviation),
           dist_me4u |-> dist_me4u, dist_iou2 |-> dist_iou2, dist_uome |-> dist_uome,
           relpath_me4u |-> relpath_me4u, relpath_iou2 |-> relpath_iou2,
           relpath_uome |-> relpath_uome,
           vol_me4u |-> _compute_volatility(r_me4u, prev_r.r_me4u),
           vol_iou2 |-> _compute_volatility(r_iou2, prev_r.r_iou2),
           vol_uome |-> _compute_volatility(r_uome, prev_r.r_uome),
           winner |-> sel.winner, winner_reason |-> sel.reason]

\* HistoricalBackfill.get_previous_distances: the distances of the row of
\* MAX(date) below rate_date, or None (here NoDistances, as the .get of the
\* empty dictionary the caller keeps in that case)
get_previous_distances(table, rate_date) ==
    _get_previous_distances(table, rate_date, TRUE)

\* HistoricalBackfill.get_previous_rates
get_previous_rates(table, rate_date) ==
    LET earlier == {d \in DOMAIN table : d < rate_date}
    IN  IF earlier # {}
        THEN LET row == table[CHOOSE d \in earlier : \A e \in earlier : e <= d]
             IN  [r_me4u |-> row.r_me4u, r_iou2 |-> row.r_iou2, r_uome |-> row.r_uome]
        ELSE NoRates

\* the columns insert_data inserts into mcol1_compute_data
BackfillComputeFields ==
    ComputeValueFields \cup {"vol_me4u", "vol_iou2", "vol_uome", "mcol1_snapshot_id"}

\* what the database does to the statements of one insert_data call
DbOutcomes == {"ok", "raises", "commit_raises"}

\* HistoricalBackfill.insert_data: the tables and counters it leaves and what
\* it returns. A date with a compute row is skipped; otherwise one
\* transaction inserts the external row if it is missing and the compute
\* row, both under a fresh snapshot_id. A statement that raises, or a commit
\* that raises after the counter was bumped, rolls the transaction back.
insert_data(external, compute, stats, rate_date, quote, metrics, snapshot_id, db) ==
    CASE db = "raises" ->
           [external |-> external, compute |-> compute, stats |-> stats,
            ret |-> "raise"]
      [] rate_date \in DOMAIN compute ->
           [external |-> external, compute |-> compute,
            stats |-> [stats EXCEPT !.skipped = @ + 1], ret |-> "False"]
      [] db = "commit_raises" ->
           [external |-> external, compute |-> compute,
            stats |-> [stats EXCEPT !.inserted = @ + 1], ret |-> "raise"]
      [] OTHER ->
           [external |->
                IF rate_date \in DOMAIN external THEN external
                ELSE (rate_date :> [eur_usd |-> quote[1], eur_cny |-> quote[2],
                                    mcol1_snapshot_id |-> snapshot_id,
                                    trace_id |-> 0, provider |-> "frankfurter"])
                     @@ external,
            compute |->
                (rate_date :> [f \in BackfillComputeFields \cup
                                     {"mcol1_snapshot_compute_id", "trace_compute_id"} |->
                                  CASE f = "mcol1_snapshot_id" -> snapshot_id
                                    [] f \in {"mcol1_snapshot_compute_id",
                                              "trace_compute_id"} -> 0
                                    [] OTHER -> metrics[f]])
                @@ compute,
            stats |-> [stats EXCEPT !.inserted = @ + 1], ret |-> "True"]

\* MissingDaysFetcher.insert_external_data of fetch_missing_days.py: the row
\* is built with rates.get("eur_usd") and rates.get("eur_cny"), which are None
\* for the adapters that key their quotes rub_*, under a fresh snapshot id,
\* and inserted with ON CONFLICT (date) DO NOTHING; an exception of the
\* statement is caught
insert_external_data(table, target_date, fetch, snapshot_id, db_ok) ==
    IF db_ok /\ target_date \notin DOMAIN table
    THEN (target_date :>
              [eur_usd |-> IF AdapterBasis(fetch.provider) = "eur"
                           THEN fetch.rates[1] ELSE Null,
               eur_cny |-> IF AdapterBasis(fetch.provider) = "eur"
                           THEN fetch.rates[2] ELSE Null,
               mcol1_snapshot_id |-> snapshot_id, trace_id |-> snapshot_id,
               provider |-> fetch.provider])
         @@ table
    ELSE table

\* the dates of a dictionary in the order the loop of backfill takes them:
\* sorted(all_rates.keys())
RECURSIVE Ascending(_)
Ascending(S) ==
    IF S = {} THEN <<>>
    ELSE LET least == CHOOSE d \in S : \A e \in S : d <= e
         IN  <<least>> \o Ascending(S \ {least})

\* a loop taking the dates latest first
latest_first(all_rates) ==
    LET dates == Ascending(DOMAIN all_rates)
    IN  [i \in 1..Len(dates) |-> dates[Len(dates) + 1 - i]]

sorted_dates(all_rates) == Ascending(DOMAIN all_rates)

\* a loop that takes the metrics of a date as the next context whatever
\* insert_data returned
context_always_updated(inserted, prev, metrics, fields) ==
    [f \in fields |-> metrics[f]]

\* the previous-day context after insert_data: "if inserted:" replaces it
\* by the metrics of the date, anything else leaves it
next_context(inserted, prev, metrics, fields) ==
    IF inserted THEN [f \in fields |-> metrics[f]] ELSE prev

\* ---------------------------------------------------------------- pipeline
VARIABLES
    run,              \* run_daily_pipeline calls: position, locals, history
    mgr,              \* the fetch_with_fallback call of each run
    provider_stats,   \* mcol1_provider_stats: rows written, by the call writing them
    external_data,    \* mcol1_external_data
    compute_data,     \* mcol1_compute_data
    backfill,         \* the HistoricalBackfill object and the position of its backfill()
    calc              \* one call of a function of the computation core: arguments, result

vars == <<run, mgr, provider_stats, external_data, compute_data, backfill, calc>>

\* the stages of run_daily_pipeline, in the order of its code
Stages == <<"acquire", "persist_external_data", "compute_daily_metrics",
            "persist_compute_data">>

NoResult == [returned |-> FALSE, success |-> FALSE, provider |-> "", winner |-> "",
             kolmo_value |-> Null, error |-> ""]

\* the dictionaries run_daily_pipeline returns
SuccessResult(provider, c) ==
    [returned |-> TRUE, success |-> TRUE, provider |-> provider, winner |-> c.winner,
     kolmo_value |-> c.kolmo_value, error |-> ""]
FailureResult(error) ==
    [returned |-> TRUE, success |-> FALSE, provider |-> "", winner |-> "",
     kolmo_value |-> Null, error |-> error]

\* no call of the computation core under way
NoCalculation == [fn |-> "none", args |-> <<>>, out |-> <<>>]

\* a HistoricalBackfill as __init__ leaves it, with the locals of backfill()
IdleBackfill ==
    [pc |-> "idle", invocation |-> 0, start_date |-> 0, end_date |-> 0,
     current |-> 0, all_rates |-> <<>>, unfetched |-> {},
     prev_distances |-> NoDistances, prev_rates |-> NoRates,
     position |-> 0, rate_date |-> 0, metrics |-> [raised |-> TRUE],
     stats |-> [fetched |-> 0, inserted |-> 0, skipped |-> 0, errors |-> 0],
     log |-> <<>>]

IdleRun ==
    [pc |-> "idle", date |-> 0, fetch |-> NoFetch, external_data |-> NoExternal,
     compute_data |-> NoCompute, result |-> NoResult,
     started |-> <<>>, completed |-> <<>>, wrote |-> {}, began_after |-> {},
     lookup |-> [done |-> FALSE, table |-> <<>>, query_ok |-> FALSE,
                 prev |-> NoDistances]]

Init ==
    /\ run = [r \in Runs |-> IdleRun]
    /\ mgr = [r \in Runs |-> NoCall]
    /\ provider_stats = [r \in Runs |-> <<>>]
    /\ external_data = <<>>
    /\ compute_data = <<>>
    /\ backfill = IdleBackfill
    /\ calc = NoCalculation

\* a pipeline that goes on to stage 2 whatever fetch_with_fallback did
AfterFetchIgnoringError(fetch) == "stage2"

\* where run_daily_pipeline goes once fetch_with_fallback has ended: on to
\* stage 2, or into its except clause
AfterFetch(fetch) == IF fetch.ok THEN "stage2" ELSE "except"

\* a pipeline that swallows the exception of a storage statement
AfterAwaitSwallowing(db_ok) == "next"

\* where run_daily_pipeline goes after an awaited storage statement: on to
\* the next statement, or into its except clause when the statement raised
AfterAwait(db_ok) == IF db_ok THEN "next" ELSE "except"

\* scheduled_job or trigger_pipeline calls run_daily_pipeline(d); stage 1
\* creates the ProviderManager and calls fetch_with_fallback
StartPipeline(r, d) ==
    /\ run[r].pc = "idle"
    /\ IF r = 1 THEN TRUE ELSE run[r - 1].pc # "idle"
    /\ run' = [run EXCEPT ![r] =
           [@ EXCEPT !.pc = "acquire", !.date = d, !.started = <<"acquire">>,
                     !.began_after =
                         {q \in Runs : run[q].pc \in {"done", "cancelled"}}]]
    /\ mgr' = [mgr EXCEPT ![r] = NewCall]
    /\ UNCHANGED <<provider_stats, external_data, compute_data, backfill, calc>>

\* one pass of the loop of fetch_with_fallback; sinks says whether the
\* telemetry insert may work (TRUE) and may fail (FALSE)
FetchIteration(r, sinks) ==
    /\ run[r].pc = "acquire"
    /\ \E res \in FetchRates(Providers[mgr[r].idx]), sink_ok \in sinks :
          LET it == Iteration(mgr[r], run[r].date, provider_stats[r], res, sink_ok)
          IN  /\ mgr' = [mgr EXCEPT ![r] = it.m]
              /\ provider_stats' = [provider_stats EXCEPT ![r] = it.rows]
              /\ run' = [run EXCEPT ![r] =
                    IF it.ended
                    THEN [@ EXCEPT !.pc = "acquired", !.fetch = it.out,
                                   !.completed =
                                       IF it.out.ok THEN <<"acquire">> ELSE <<>>]
                    ELSE @]
    /\ UNCHANGED <<external_data, compute_data, backfill, calc>>

\* ExternalDataCreate(eur_usd=rates["eur_usd"], ...) as main.py and models.py
\* stand: KeyError when the dict has no such key, ValidationError when the
\* required fields of the record are not among the keyword arguments
Construct(fetch) ==
    CASE AdapterBasis(fetch.provider) # Stage2Basis -> "KeyError"
      [] Stage2Basis # RecordBasis -> "ValidationError"
      [] OTHER -> "ok"

\* the outcomes of the construction: the one of the code as it stands, or,
\* the record and the adapters taken to agree with main.py on eur_usd and
\* eur_cny, also a record built or rejected by its field constraints
ConstructionOutcomes(fetch, as_written) ==
    IF as_written
    THEN {Construct(fetch)}
    ELSE {"ok", "ValidationError", Construct(fetch)}

\* run_daily_pipeline after the await of fetch_with_fallback: an exception
\* goes to the except clause; otherwise ExternalDataCreate is built, and an
\* exception of the construction goes to the except clause too.  The
\* ProviderManager of the run is dropped.
\* The record declared in models.py requires rub_usd and rub_cny, the call
\* in main.py passes eur_usd and eur_cny, and the engine and the SQL read
\* eur_usd and eur_cny: with models.py as it stands the construction always
\* raises.  With as_written FALSE the other outcomes are kept too, so that
\* stages 2 and 3 are modelled as main.py and engine.py write them.
BuildExternalData(r, as_written) ==
    /\ run[r].pc = "acquired"
    /\ mgr' = [mgr EXCEPT ![r] = NoCall]
    /\ \E built \in ConstructionOutcomes(run[r].fetch, as_written) :
          run' = [run EXCEPT ![r] =
              CASE AfterFetch(run[r].fetch) = "except" ->
                     [@ EXCEPT !.pc = "done", !.result = FailureResult("RuntimeError")]
                [] AfterFetch(run[r].fetch) = "stage2" /\ built # "ok" ->
                     [@ EXCEPT !.pc = "done", !.result = FailureResult(built)]
                [] OTHER ->
                     [@ EXCEPT !.pc = "store",
                               !.external_data =
                                   ExternalDataCreate(run[r].date, run[r].fetch.rates,
                                                      r, run[r].fetch.provider)]]
    /\ UNCHANGED <<provider_stats, external_data, compute_data, backfill, calc>>

\* stage 2: await persist_external_data(external_data); the statement
\* writes the row unless it raises, and an exception goes to the except
\* clause
PersistExternal(r) ==
    /\ run[r].pc = "store"
    /\ \E db_ok \in BOOLEAN :
          /\ external_data' =
                 IF db_ok
                 THEN persist_external_data(external_data, run[r].external_data)
                 ELSE external_data
          /\ run' = [run EXCEPT ![r] =
                 [@ EXCEPT !.pc = IF AfterAwait(db_ok) = "next"
                                  THEN "compute" ELSE "done",
                           !.started = Append(@, "persist_external_data"),
                           !.completed =
                               IF db_ok THEN Append(@, "persist_external_data") ELSE @,
                           !.wrote =
                               IF db_ok THEN @ \cup {"mcol1_external_data"} ELSE @,
                           !.result = IF AfterAwait(db_ok) = "next"
                                      THEN @ ELSE FailureResult("StorageError")]]
    /\ UNCHANGED <<mgr, provider_stats, compute_data, backfill, calc>>

\* stage 3: await engine.compute_daily_metrics(external_data)
Compute(r) ==
    /\ run[r].pc = "compute"
    /\ \E query_ok \in BOOLEAN :
          LET c == compute_daily_metrics(run[r].external_data, compute_data,
                                         query_ok, r)
          IN  run' = [run EXCEPT ![r] =
                  IF c.raised
                  THEN [@ EXCEPT !.pc = "done",
                                 !.started = Append(@, "compute_daily_metrics"),
                                 !.result = FailureResult("ValueError")]
                  ELSE [@ EXCEPT !.pc = "persist",
                                 !.started = Append(@, "compute_daily_metrics"),
                                 !.completed = Append(@, "compute_daily_metrics"),
                                 !.compute_data = c.data,
                                 !.lookup = [done |-> TRUE, table |-> compute_data,
                                             query_ok |-> query_ok,
                                             prev |-> c.prev]]]
    /\ UNCHANGED <<mgr, provider_stats, external_data, compute_data, backfill, calc>>

\* stage 3, second half: await persist_compute_data(compute_data), then the
\* success dictionary is returned; an exception goes to the except clause
PersistCompute(r) ==
    /\ run[r].pc = "persist"
    /\ \E db_ok \in BOOLEAN :
          /\ compute_data' =
                 IF db_ok
                 THEN persist_compute_data(compute_data, run[r].compute_data)
                 ELSE compute_data
          /\ run' = [run EXCEPT ![r] =
                 [@ EXCEPT !.pc = "done",
                           !.started = Append(@, "persist_compute_data"),
                           !.completed =
                               IF db_ok THEN Append(@, "persist_compute_data") ELSE @,
                           !.wrote =
                               IF db_ok THEN @ \cup {"mcol1_compute_data"} ELSE @,
                           !.result = IF AfterAwait(db_ok) = "next"
                                      THEN SuccessResult(run[r].fetch.provider,
                                                         run[r].compute_data)
                                      ELSE FailureResult("StorageError")]]
    /\ UNCHANGED <<mgr, provider_stats, external_data, backfill, calc>>

\* the task of the run is cancelled while it awaits in stage 3 (shutdown of
\* the server): CancelledError is not an Exception, the except clause does
\* not run and nothing is returned
Cancel(r) ==
    /\ run[r].pc \in {"compute", "persist"}
    /\ run' = [run EXCEPT ![r] = [@ EXCEPT !.pc = "cancelled"]]
    /\ UNCHANGED <<mgr, provider_stats, external_data, compute_data, backfill, calc>>

\* ------------------------------------------------------- backfill actions
\* dates a backfill can be asked for, quotes Frankfurter can answer with
\* (a zero makes compute_kolmo_metrics raise), invocations of the script
MaxBackfillDate == 3
MaxBackfills == 2
BackfillDates == 1..MaxBackfillDate
BackfillQuotes == Quotes \cup {<<Dec(0), Dec(2)>>}

Min(a, b) == IF a <= b THEN a ELSE b

\* main() of the script: a new HistoricalBackfill, backfill(start, end)
StartBackfill(start_date, end_date) ==
    /\ backfill.pc \in {"idle", "done", "aborted"}
    /\ backfill.invocation < MaxBackfills
    /\ start_date <= end_date
    /\ backfill' = [IdleBackfill EXCEPT !.pc = "fetch",
                                         !.invocation = backfill.invocation + 1,
                                         !.start_date = start_date,
                                         !.end_date = end_date,
                                         !.current = start_date]
    /\ UNCHANGED <<run, mgr, provider_stats, external_data, compute_data, calc>>

\* step 1 of backfill(), one turn of "while current <= end_date":
\* fetch_frankfurter_range answers with the quotes of the dates of the batch,
\* or with {} after logging an httpx.HTTPError, or raises anything else
FetchBatch ==
    /\ backfill.pc = "fetch"
    /\ LET batch_end == Min(backfill.current + BATCH_SIZE - 1, backfill.end_date)
           batch == backfill.current..batch_end
           After(rates, lost) ==
               LET all_rates == rates @@ backfill.all_rates
                   next == batch_end + 1
               IN  [backfill EXCEPT
                       !.all_rates = all_rates,
                       !.unfetched = @ \cup lost,
                       !.current = next,
                       !.stats.fetched = IF next <= backfill.end_date THEN @
                                         ELSE Cardinality(DOMAIN all_rates),
                       !.pc = IF next <= backfill.end_date THEN "fetch" ELSE "context"]
       IN  \/ \E rates \in [batch -> BackfillQuotes] : backfill' = After(rates, {})
           \/ backfill' = After(<<>>, batch)
           \/ backfill' = [backfill EXCEPT !.pc = "aborted"]
    /\ UNCHANGED <<run, mgr, provider_stats, external_data, compute_data, calc>>

\* step 2 of backfill(): the context of the first date from the rows stored
\* before it; the two queries are outside any try
LoadContext ==
    /\ backfill.pc = "context"
    /\ LET dates == sorted_dates(backfill.all_rates)
       IN  IF dates = <<>>
           THEN backfill' = [backfill EXCEPT !.pc = "done"]
           ELSE \E query_ok \in BOOLEAN :
                   backfill' =
                       IF query_ok
                       THEN [backfill EXCEPT
                                !.prev_distances =
                                    get_previous_distances(compute_data, dates[1]),
                                !.prev_rates = get_previous_rates(compute_data, dates[1]),
                                !.position = 1,
                                !.pc = "compute"]
                       ELSE [backfill EXCEPT !.pc = "aborted"]
    /\ UNCHANGED <<run, mgr, provider_stats, external_data, compute_data, calc>>

\* the record the model keeps of one turn of the loop of step 3
Turn(rate_date, outcome, metrics) ==
    [date |-> rate_date, context |-> backfill.prev_distances,
     rates_context |-> backfill.prev_rates, outcome |-> outcome,
     metrics |-> metrics]

\* the loop of step 3 moving to its next date, or backfill() ending
Advance(b) ==
    IF b.position < Len(sorted_dates(b.all_rates))
    THEN [b EXCEPT !.position = @ + 1, !.pc = "compute", !.metrics = [raised |-> TRUE]]
    ELSE [b EXCEPT !.pc = "done", !.metrics = [raised |-> TRUE]]

\* step 3 of backfill(), a turn of "for rate_date in sorted_dates:" up to
\* the await of insert_data; an exception of compute_kolmo_metrics is
\* counted and the loop goes on
ComputeDate ==
    /\ backfill.pc = "compute"
    /\ LET rate_date == sorted_dates(backfill.all_rates)[backfill.position]
           quote == backfill.all_rates[rate_date]
           metrics == compute_kolmo_metrics(quote[1], quote[2],
                                            backfill.prev_distances, backfill.prev_rates)
       IN  backfill' =
               IF metrics.raised
               THEN Advance([backfill EXCEPT
                                !.rate_date = rate_date,
                                !.stats.errors = @ + 1,
                                !.log = Append(@, Turn(rate_date, "compute_error", metrics))])
               ELSE [backfill EXCEPT !.rate_date = rate_date, !.metrics = metrics,
                                     !.pc = "insert"]
    /\ UNCHANGED <<run, mgr, provider_stats, external_data, compute_data, calc>>

\* the rest of the turn: insert_data, the update of the context, the
\* except clause
InsertDate ==
    /\ backfill.pc = "insert"
    /\ \E db \in DbOutcomes :
          LET rate_date == backfill.rate_date
              res == insert_data(external_data, compute_data, backfill.stats, rate_date,
                                 backfill.all_rates[rate_date], backfill.metrics,
                                 MaxRuns + backfill.invocation * MaxBackfillDate + rate_date,
                                 db)
              inserted == res.ret = "True"
          IN  /\ external_data' = res.external
              /\ compute_data' = res.compute
              /\ backfill' =
                     Advance([backfill EXCEPT
                         !.stats = IF res.ret = "raise"
                                   THEN [res.stats EXCEPT !.errors = @ + 1]
                                   ELSE res.stats,
                         !.prev_distances =
                             next_context(inserted, @, backfill.metrics,
                                          {"dist_me4u", "dist_iou2", "dist_uome"}),
                         !.prev_rates =
                             next_context(inserted, @, backfill.metrics,
                                          {"r_me4u", "r_iou2", "r_uome"}),
                         !.log = Append(@, Turn(rate_date,
                                                CASE res.ret = "True" -> "inserted"
                                                  [] res.ret = "False" -> "skipped"
                                                  [] OTHER -> "insert_error",
                                                backfill.metrics))])
    /\ UNCHANGED <<run, mgr, provider_stats, calc>>

\* dates the batch raw fetch may be run for before the backfills
MaxMissing == 1

\* fetch_missing_days.py for one missing date, run before any backfill:
\* find_missing_dates keeps the dates without a mcol1_external_data row,
\* fetch_for_date asks fetch_with_fallback (a failure of all adapters is
\* caught and nothing is inserted), insert_external_data stores the row.
\* The counters and the error log of the script are not kept.
FetchMissingDay(target_date) ==
    /\ backfill.pc = "idle"
    /\ target_date \notin DOMAIN external_data
    /\ Cardinality(DOMAIN external_data) < MaxMissing
    /\ \E name \in {Providers[i] : i \in DOMAIN Providers}, quote \in Quotes,
          db_ok \in BOOLEAN :
          external_data' =
              insert_external_data(external_data, target_date,
                                   FetchReturn(quote, name),
                                   MaxRuns + target_date, db_ok)
    /\ UNCHANGED <<run, mgr, provider_stats, compute_data, backfill, calc>>

\* ---------------------------------------------- computation core, called
\* arguments the functions of the computation core are called with
RelpathValues ==
    {Null, Rat(-210, 100), Rat(-85, 100), Dec(0), Rat(5, 100), Dec(1), Rat(324, 100)}
DistanceValues == {Dec(0), Dec(80), Dec(100)}
KolmoValues ==
    {Rat(94, 100), Rat(95, 100), Rat(97, 100), Rat(99, 100), Rat(995, 1000), Dec(1),
     Rat(1005, 1000), Rat(101, 100), Rat(103, 100), Rat(105, 100), Rat(106, 100)}
CalcQuotes ==
    Quotes \cup {<<Dec(20200), Dec(1)>>, <<Dec(105000), Dec(1)>>, <<Dec(1), Dec(3)>>}
RecordRates == {Rat(1, 2), Dec(1), Dec(2)}
RecordValues == {Rat(1, 2), Dec(1), Dec(2), Dec(4)}

\* the nullable-looking columns of a stored mcol1_compute_data row
StoredRows ==
    [dist_me4u : DistanceValues, dist_iou2 : {Dec(80)}, dist_uome : DistanceValues,
     relpath_me4u : RelpathValues, relpath_iou2 : {Null, Dec(0)},
     relpath_uome : RelpathValues]

\* _row_to_response of api/routes.py, the six fields built as
\* float(row[c]) if row[c] else None: None and Decimal 0 are both false.
\* (The other fields of the WinnerResponse are not kept.)
_row_to_response(row) ==
    [c \in DOMAIN row |->
        IF ~IsNull(row[c]) /\ row[c] # Dec(0) THEN float_of(row[c]) ELSE float_of(Null)]

CalcInputs ==
    {[kind |-> "relpaths", v |-> <<a, b, c>>] : a, b, c \in RelpathValues}
    \cup {[kind |-> "distances", v |-> <<a, b>>] :
              a \in DistanceValues, b \in DistanceValues \cup {Null}}
    \cup {[kind |-> "kolmo_value", v |-> <<k>>] : k \in KolmoValues}
    \cup {[kind |-> "quote", v |-> q] : q \in CalcQuotes}
    \cup {[kind |-> "row", v |-> row] : row \in StoredRows}
    \cup {[kind |-> "record", v |-> <<a, b, c, k>>] :
              a, b \in RecordRates, c \in {Dec(1), Dec(2)}, k \in RecordValues}

InitCalc ==
    /\ run = [r \in Runs |-> IdleRun]
    /\ mgr = [r \in Runs |-> NoCall]
    /\ provider_stats = [r \in Runs |-> <<>>]
    /\ external_data = <<>>
    /\ compute_data = <<>>
    /\ backfill = IdleBackfill
    /\ calc \in {[fn |-> "none", args |-> i, out |-> <<>>] : i \in CalcInputs}

\* each action below is one call: the function is applied to the arguments
\* drawn and calc keeps what it returned
CallSelect ==
    /\ calc.fn = "none"
    /\ calc.args.kind = "relpaths"
    /\ calc' = [calc EXCEPT !.fn = "select",
                            !.out = select(calc.args.v[1], calc.args.v[2], calc.args.v[3])]
    /\ UNCHANGED <<run, mgr, provider_stats, external_data, compute_data, backfill>>

CallRelativepath ==
    /\ calc.fn = "none"
    /\ calc.args.kind = "distances"
    /\ calc' = [calc EXCEPT !.fn = "compute_relativepath",
                            !.out = compute_relativepath(calc.args.v[1], calc.args.v[2])]
    /\ UNCHANGED <<run, mgr, provider_stats, external_data, compute_data, backfill>>

CallState ==
    /\ calc.fn = "none"
    /\ calc.args.kind = "kolmo_value"
    /\ calc' = [calc EXCEPT !.fn = "compute_state",
                            !.out = compute_state(calc.args.v[1])]
    /\ UNCHANGED <<run, mgr, provider_stats, external_data, compute_data, backfill>>

\* get_winner_latest and get_rates_by_date hand the row they selected to
\* _row_to_response
CallRowToResponse ==
    /\ calc.fn = "none"
    /\ calc.args.kind = "row"
    /\ calc' = [calc EXCEPT !.fn = "_row_to_response",
                            !.out = _row_to_response(calc.args.v)]
    /\ UNCHANGED <<run, mgr, provider_stats, external_data, compute_data, backfill>>

CallTransform ==
    /\ calc.fn = "none"
    /\ calc.args.kind = "quote"
    /\ calc' = [calc EXCEPT !.fn = "transform",
                            !.out = transform(calc.args.v[1], calc.args.v[2])]
    /\ UNCHANGED <<run, mgr, provider_stats, external_data, compute_data, backfill>>

\* compute_kolmo_metrics of the backfill for a first date
CallBackfillMetrics ==
    /\ calc.fn = "none"
    /\ calc.args.kind = "quote"
    /\ calc' = [calc EXCEPT !.fn = "compute_kolmo_metrics",
                            !.out = compute_kolmo_metrics(calc.args.v[1], calc.args.v[2],
                                                         NoDistances, NoRates)]
    /\ UNCHANGED <<run, mgr, provider_stats, external_data, compute_data, backfill>>

\* compute_daily_metrics of the engine for a first date
CallEngineMetrics ==
    /\ calc.fn = "none"
    /\ calc.args.kind = "quote"
    /\ calc' = [calc EXCEPT !.fn = "compute_daily_metrics",
                            !.out = compute_daily_metrics(
                                       ExternalDataCreate(1, calc.args.v, 1, "cbr"),
                                       <<>>, TRUE, 1)]
    /\ UNCHANGED <<run, mgr, provider_stats, external_data, compute_data, backfill>>

\* the keyword arguments of a ComputeDataCreate(...) with the rates and the
\* kolmo_value drawn
RecordArgs(v) ==
    [NoCompute EXCEPT !.r_me4u = v[1], !.r_iou2 = v[2], !.r_uome = v[3],
                      !.kolmo_value = v[4],
                      !.kolmo_deviation = compute_deviation(v[4])]

\* ComputeDataCreate(...): the record, or the ValueError of its validator
CallComputeDataCreate ==
    /\ calc.fn = "none"
    /\ calc.args.kind = "record"
    /\ calc' = [calc EXCEPT !.fn = "ComputeDataCreate",
                            !.out = IF ComputeDataValid(RecordArgs(calc.args.v))
                                   THEN "constructed" ELSE "ValueError"]
    /\ UNCHANGED <<run, mgr, provider_stats, external_data, compute_data, backfill>>

Next ==
    \/ \E r \in Runs, d \in Dates : StartPipeline(r, d)
    \/ \E r \in Runs : FetchIteration(r, {TRUE})
    \/ \E r \in Runs : BuildExternalData(r, FALSE)
    \/ \E r \in Runs : PersistExternal(r)
    \/ \E r \in Runs : Compute(r)
    \/ \E r \in Runs : PersistCompute(r)
    \/ \E r \in Runs : Cancel(r)

\* The pipeline with concurrent runs.  The telemetry insert works here:
\* _log_stats hands no exception and no value to its caller, so the runs
\* behave the same when it fails (SpecFetch covers the failing insert).
Spec == Init /\ [][Next]_vars

\* One fetch_with_fallback call, the telemetry insert failing at will.
NextFetch ==
    \/ \E d \in Dates : StartPipeline(1, d)
    \/ FetchIteration(1, BOOLEAN)

SpecFetch == Init /\ [][NextFetch]_vars

\* The same call, scheduled: every execution of an adapter body ends (the
\* httpx clients have timeouts of 10 or 15 s, wait_exponential sleeps at most
\* 10 s), so a pass of the loop that can be made is made.
SpecFetchLive == SpecFetch /\ WF_vars(FetchIteration(1, BOOLEAN))

\* One run up to the construction of ExternalDataCreate, with the adapters,
\* main.py and models.py as they stand.
NextBasis ==
    \/ \E d \in Dates : StartPipeline(1, d)
    \/ FetchIteration(1, {TRUE})
    \/ BuildExternalData(1, TRUE)

SpecBasis == Init /\ [][NextBasis]_vars

\* the backfill script run MaxBackfills times, one invocation after the other
NextBackfill ==
    \/ \E s, e \in BackfillDates : StartBackfill(s, e)
    \/ FetchBatch
    \/ LoadContext
    \/ ComputeDate
    \/ InsertDate

SpecBackfill == Init /\ [][NextBackfill]_vars

\* the batch raw fetch for up to MaxMissing dates, then the backfill script
NextScripts ==
    \/ \E d \in BackfillDates : FetchMissingDay(d)
    \/ \E s, e \in BackfillDates : StartBackfill(s, e)
    \/ FetchBatch
    \/ LoadContext
    \/ ComputeDate
    \/ InsertDate

SpecScripts == Init /\ [][NextScripts]_vars

\* one call of a function of the computation core on arguments drawn from
\* CalcInputs
NextCalc ==
    \/ CallSelect
    \/ CallRelativepath
    \/ CallState
    \/ CallTransform
    \/ CallRowToResponse
    \/ CallBackfillMetrics
    \/ CallEngineMetrics
    \/ CallComputeDataCreate

SpecCalc == InitCalc /\ [][NextCalc]_vars

\* -------------------------------------------------------------- properties

\* s is a prefix of t
IsPrefix(s, t) == Len(s) <= Len(t) /\ \A i \in 1..Len(s) : s[i] = t[i]

\* the fetch_with_fallback call of run r has ended
CallEnded(r) == run[r].pc = "acquired"

\* C1: fetch_with_fallback invokes the adapters one at a time in the fixed
\* order frankfurter, cbr, twelvedata; it invokes an adapter only after every
\* adapter before it has failed, invokes none after a success, and returns
\* the rates and the name of the first adapter that succeeded.
C1_SequentialFallback ==
    \A r \in Runs :
        LET m == mgr[r]
            n == Len(m.invoked)
        IN  /\ IsPrefix(m.invoked, Providers)
            /\ Len(m.surfaced) = n
            /\ \A i \in 1..n : \A j \in 1..(i - 1) : m.surfaced[j].cls # "return"
            /\ \A i \in 1..n :
                   m.surfaced[i].cls = "return" => i = n /\ CallEnded(r)
            /\ (CallEnded(r) /\ run[r].fetch.ok) =>
                   /\ n >= 1
                   /\ m.surfaced[n].cls = "return"
                   /\ run[r].fetch.rates = m.surfaced[n].rates
                   /\ run[r].fetch.provider = m.invoked[n]

\* frankfurter failed, cbr served the call, twelvedata was not invoked
C1_SecondAdapterServes ==
    /\ CallEnded(1)
    /\ run[1].fetch.ok
    /\ run[1].fetch.provider = "cbr"
    /\ mgr[1].invoked = <<"frankfurter", "cbr">>

\* C2 as stated: a call that ends at the adapter in position k has written
\* exactly k telemetry rows, one per adapter invoked, numbered by position,
\* the success flag set only on the row of the adapter that succeeded.
C2_RowPerInvocation ==
    \A r \in Runs :
        CallEnded(r) =>
            /\ Len(provider_stats[r]) = Len(mgr[r].invoked)
            /\ \A i \in 1..Len(provider_stats[r]) :
                   /\ provider_stats[r][i].attempt_order = i
                   /\ provider_stats[r][i].success =
                          (i <= Len(mgr[r].surfaced) /\ mgr[r].surfaced[i].cls = "return")

\* the records among calls whose insert worked, in order
RECURSIVE Accepted(_, _)
Accepted(calls, sink) ==
    IF calls = <<>>
    THEN <<>>
    ELSE (IF Head(sink) THEN <<Head(calls)>> ELSE <<>>)
         \o Accepted(Tail(calls), Tail(sink))

\* C2, amended: the call hands _log_stats exactly one record per adapter
\* invoked, numbered by the adapter's position and flagged successful only
\* for the adapter that succeeded; the rows written are those records whose
\* insert did not fail, in order, so that k rows are written when no insert
\* fails.
C2_RecordPerInvocation ==
    \A r \in Runs :
        LET m == mgr[r]
            n == Len(m.invoked)
        IN  /\ Len(m.calls) = n
            /\ \A i \in 1..n :
                   /\ m.calls[i].date = run[r].date
                   /\ m.calls[i].provider_name = Providers[i]
                   /\ m.calls[i].attempt_order = i
                   /\ m.calls[i].success = (m.surfaced[i].cls = "return")
            /\ provider_stats[r] = Accepted(m.calls, m.sink)
            /\ (\A i \in 1..n : m.sink[i]) => Len(provider_stats[r]) = n

\* frankfurter fails, cbr succeeds, both inserts work: two rows, none for
\* twelvedata
C2_TwoRowsForTwoAdapters ==
    /\ CallEnded(1)
    /\ Len(mgr[1].invoked) = 2
    /\ mgr[1].sink = <<TRUE, TRUE>>
    /\ Len(provider_stats[1]) = 2
    /\ provider_stats[1][2].success

\* C3 as stated: the call raises only when every adapter failed, and the
\* error it raises lists, in invocation order, every adapter with the kind
\* of its failure.
C3_AggregateErrorListsFailures ==
    \A r \in Runs :
        (CallEnded(r) /\ ~run[r].fetch.ok) =>
            /\ Len(mgr[r].invoked) = Len(Providers)
            /\ \A i \in 1..Len(Providers) : mgr[r].surfaced[i].cls # "return"
            /\ Len(run[r].fetch.failures) = Len(Providers)
            /\ \A i \in 1..Len(Providers) :
                   run[r].fetch.failures[i] =
                       <<Providers[i], mgr[r].surfaced[i].error_type>>

\* the call replayed with every telemetry insert working, the adapters
\* handing back results[1], results[2], ... in order
RECURSIVE Replay(_, _, _, _)
Replay(m, date, rows, results) ==
    IF m.idx > Len(results)
    THEN [m |-> m, ended |-> FALSE, out |-> NoFetch]
    ELSE LET it == Iteration(m, date, rows, results[m.idx], TRUE)
         IN  IF it.ended
             THEN [m |-> it.m, ended |-> TRUE, out |-> it.out]
             ELSE Replay(it.m, date, it.rows, results)

\* C4: a failing telemetry insert changes nothing of the call: the adapters
\* invoked, their order and the result (rates and provider, or the error)
\* are those of the same call with every insert working.
C4_TelemetryFailureIsHarmless ==
    \A r \in Runs :
        LET rep == Replay(NewCall, run[r].date, <<>>, mgr[r].surfaced)
        IN  /\ rep.m.invoked = mgr[r].invoked
            /\ rep.ended = CallEnded(r)
            /\ CallEnded(r) => rep.out = run[r].fetch

\* cbr served the call although both telemetry inserts failed
C4_ServedWithoutTelemetry ==
    /\ CallEnded(1)
    /\ run[1].fetch.ok
    /\ mgr[1].sink = <<FALSE, FALSE>>
    /\ provider_stats[1] = <<>>

\* C5: in a run the four stages start in the order acquire,
\* persist_external_data, compute_daily_metrics, persist_compute_data, and a
\* stage starts only when every stage before it has completed.
C5_StagesInOrder ==
    \A r \in Runs :
        /\ IsPrefix(run[r].started, Stages)
        /\ IsPrefix(run[r].completed, Stages)
        /\ Len(run[r].completed) <= Len(run[r].started)
        /\ Len(run[r].started) <= Len(run[r].completed) + 1

\* a run that went through all four stages
C5_AllStagesCompleted ==
    \E r \in Runs : run[r].completed = Stages /\ run[r].result.success

\* run r acts in this step
StepOf(r) == <<run[r], mgr[r]>>' # <<run[r], mgr[r]>>

\* C6: a run whose acquisition fails creates and changes no row of
\* mcol1_external_data and mcol1_compute_data, and ends with a failure
\* result as its next step.
C6_FailedAcquisitionWritesNothing ==
    [][\A r \in Runs :
          (StepOf(r) /\ (\/ run[r].pc \in {"idle", "acquire"}
                         \/ run[r].pc = "acquired" /\ ~run[r].fetch.ok)) =>
              /\ external_data' = external_data
              /\ compute_data' = compute_data
              /\ (run[r].pc = "acquired") =>
                     /\ run'[r].pc = "done"
                     /\ run'[r].result.returned
                     /\ ~run'[r].result.success
                     /\ run'[r].wrote = {}]_vars

\* run 2 has failed to acquire while run 1 has stored both rows of a date
C6_FailedRunBesideStoredRows ==
    /\ run[2].pc = "done"
    /\ ~run[2].fetch.ok
    /\ run[2].result.returned /\ ~run[2].result.success
    /\ DOMAIN external_data # {}
    /\ DOMAIN compute_data # {}

PersistFailed(r) ==
    \E i \in 1..Len(run[r].started) :
        /\ run[r].started[i] \in {"persist_external_data", "persist_compute_data"}
        /\ i > Len(run[r].completed)

\* the previous-day query of run r raised
LookupFailed(r) == run[r].lookup.done /\ ~run[r].lookup.query_ok

Derived(c, e) ==
    LET t == transform(e.eur_usd, e.eur_cny)
    IN  /\ t.ok
        /\ c.r_me4u = t.r_me4u
        /\ c.r_iou2 = t.r_iou2
        /\ c.r_uome = t.r_uome

\* neither of the two runs began after the other had ended
Overlap(r1, r2) ==
    /\ r1 # r2
    /\ run[r1].pc # "idle" /\ run[r2].pc # "idle"
    /\ r1 \notin run[r2].began_after
    /\ r2 \notin run[r1].began_after

C11_AdapterBasisConsumed ==
    \A r \in Runs :
        (run[r].fetch.ok /\ run[r].pc \notin {"idle", "acquire", "acquired"}) =>
            /\ AdapterBasis(run[r].fetch.provider) = Stage2Basis
            /\ Stage2Basis = RecordBasis
            /\ RecordBasis = TransformBasis
            /\ run[r].pc = "store"

\* the dates whose turn of the loop of backfill() has ended
TurnedDates == {backfill.log[i].date : i \in DOMAIN backfill.log}

\* C12: backfill() takes the dates one at a time in strictly increasing
\* order: the turns that have ended are in increasing date order, and while
\* a date is between its compute and the end of its persist, every earlier
\* date of the batch has ended its turn, no later one has begun, and it is
\* the only date in progress.
C12_OneDateAtATime ==
    /\ \A i, j \in DOMAIN backfill.log :
           i < j => backfill.log[i].date < backfill.log[j].date
    /\ backfill.pc = "insert" =>
           /\ \A d \in DOMAIN backfill.all_rates :
                  d \in TurnedDates <=> d < backfill.rate_date
           /\ Len(backfill.log) = backfill.position - 1

\* the third date of a batch is being persisted after the two before it
C12_ThirdDateAfterTwo ==
    /\ backfill.pc = "insert"
    /\ backfill.rate_date = MaxBackfillDate
    /\ Len(backfill.log) = MaxBackfillDate - 1

\* the distances and the rates of the metrics of a turn
DistancesOf(m) == [f \in {"dist_me4u", "dist_iou2", "dist_uome"} |-> m[f]]
RatesOf(m) == [f \in {"r_me4u", "r_iou2", "r_uome"} |-> m[f]]

\* the last turn before turn i of the batch whose persist succeeded, 0 if none
LastPersisted(i) ==
    LET ok == {j \in 1..(i - 1) : backfill.log[j].outcome = "inserted"}
    IN  IF ok = {} THEN 0 ELSE CHOOSE j \in ok : \A k \in ok : k <= j

\* the context turn i is to use given the turns before it: the metrics of the
\* last persisted date of the batch, or what the batch started from
ContextFor(i) ==
    IF LastPersisted(i) = 0
    THEN [dist |-> backfill.log[1].context, rates |-> backfill.log[1].rates_context]
    ELSE [dist |-> DistancesOf(backfill.log[LastPersisted(i)].metrics),
          rates |-> RatesOf(backfill.log[LastPersisted(i)].metrics)]

\* C13: in a batch, every date is computed from the context of the last date
\* before it whose persist succeeded (or from the context the batch started
\* from); the metrics of a date whose persist failed are never the context
\* of a later date, neither of a turn that has ended nor of the one in
\* progress.
C13_FailedPersistIsNoContext ==
    /\ \A i \in DOMAIN backfill.log :
           /\ backfill.log[i].context = ContextFor(i).dist
           /\ backfill.log[i].rates_context = ContextFor(i).rates
    /\ (backfill.log # <<>> /\ backfill.pc \in {"compute", "insert", "done"}) =>
           /\ backfill.prev_distances = ContextFor(Len(backfill.log) + 1).dist
           /\ backfill.prev_rates = ContextFor(Len(backfill.log) + 1).rates

\* a date was persisted, the persist of the next failed, and the date after
\* it was computed from the first, whose distances differ from the failed one's
C13_ContextSkipsFailedDate ==
    /\ Len(backfill.log) = 3
    /\ backfill.log[1].outcome = "inserted"
    /\ backfill.log[2].outcome = "insert_error"
    /\ backfill.log[3].context = DistancesOf(backfill.log[1].metrics)
    /\ backfill.log[3].context # DistancesOf(backfill.log[2].metrics)

\* C14 as stated: when backfill() is over it has not been cut short, every
\* date of the range that was asked for has had its turn and is counted as
\* inserted, skipped or error, and every failure (a range request, a
\* compute, an insert) is in the error count.
C14_EveryDateCounted ==
    backfill.pc \in {"done", "aborted"} =>
        /\ backfill.pc = "done"
        /\ \A d \in backfill.start_date..backfill.end_date : d \in TurnedDates
        /\ backfill.stats.inserted + backfill.stats.skipped + backfill.stats.errors
               >= backfill.end_date - backfill.start_date + 1
        /\ backfill.stats.errors >=
               Cardinality({i \in DOMAIN backfill.log :
                               backfill.log[i].outcome \in {"compute_error", "insert_error"}})
               + Cardinality(backfill.unfetched)

\* the stage a run that returned a failure was in: the one after the stages
\* it completed
FailedStage(r) == Stages[Len(run[r].completed) + 1]

\* C15 as stated: a run returns a success result carrying the winner and the
\* invariant, or a failure result that names the stage that failed: two
\* failure results that are the same apart from date and trace id come from
\* the same stage.  (error is str(e) of the exception caught.)
C15_FailureNamesStage ==
    /\ \A r \in Runs :
           (run[r].result.returned /\ run[r].result.success) =>
               /\ run[r].result.winner = run[r].compute_data.winner
               /\ run[r].result.kolmo_value = run[r].compute_data.kolmo_value
    /\ \A r1, r2 \in Runs :
           (/\ run[r1].result.returned /\ ~run[r1].result.success
            /\ run[r2].result.returned /\ ~run[r2].result.success
            /\ run[r1].result = run[r2].result) =>
               FailedStage(r1) = FailedStage(r2)

\* C16: a ComputeDataCreate is constructed only with kolmo_value equal to
\* r_me4u * r_iou2 * r_uome, any other kolmo_value is rejected with the
\* ValueError of the validator, and compute_daily_metrics always builds a
\* record that passes.
C16_ExactProductOrRejected ==
    /\ calc.fn = "ComputeDataCreate" =>
           LET v == calc.args.v
           IN  (calc.out = "constructed") <=> (v[4] = RMul(RMul(v[1], v[2]), v[3]))
    /\ calc.fn = "compute_daily_metrics" =>
           /\ ~calc.out.raised
           /\ calc.out.data.kolmo_value =
                  RMul(RMul(calc.out.data.r_me4u, calc.out.data.r_iou2),
                       calc.out.data.r_uome)

\* a record whose kolmo_value is not the product of its rates was rejected
C16_MismatchRejected ==
    /\ calc.fn = "ComputeDataCreate"
    /\ calc.out = "ValueError"
    /\ calc.args.v[4] # RMul(RMul(calc.args.v[1], calc.args.v[2]), calc.args.v[3])

\* the coins whose value is the maximum over the non-null values of a triple
\* (relpath_me4u, relpath_iou2, relpath_uome), and that maximum
ValueOf(v, c) == CASE c = "ME4U" -> v[1] [] c = "IOU2" -> v[2] [] c = "UOME" -> v[3]
NonNull(v) == {c \in {"IOU2", "ME4U", "UOME"} : ~IsNull(ValueOf(v, c))}
Maximal(v) ==
    {c \in NonNull(v) : \A o \in NonNull(v) : ~RLt(ValueOf(v, c), ValueOf(v, o))}
Maximum(v) == ValueOf(v, CHOOSE c \in Maximal(v) : TRUE)
Alphabetical(S) == SelectSeq(<<"IOU2", "ME4U", "UOME">>, LAMBDA c : c \in S)

\* what C17 says of the winner, of the tied set and of reason.winner
WinnerIsFirstOfMaximal(v, out) ==
    /\ out.winner = Alphabetical(Maximal(v))[1]
    /\ out.reason.tied_coins = Alphabetical(Maximal(v))
    /\ out.reason.winner = out.winner

\* C17 as stated: for a triple with a non-null value the winner is the
\* alphabetically first of the maximal instruments, the tied set is the
\* maximal instruments in alphabetical order, reason.winner is the winner,
\* and the reason's max_relpath equals the maximum.
C17_MaxRelpathIsMaximum ==
    (calc.fn = "select" /\ NonNull(calc.args.v) # {}) =>
        /\ WinnerIsFirstOfMaximal(calc.args.v, calc.out)
        /\ calc.out.reason.max_relpath.exact
        /\ calc.out.reason.max_relpath.nearest_to = Maximum(calc.args.v)

\* C17, amended: the same, with the reason's max_relpath being the double
\* nearest to the maximum, which equals the maximum exactly when the
\* maximum is a binary fraction.
C17_MaxRelpathIsNearestDouble ==
    (calc.fn = "select" /\ NonNull(calc.args.v) # {}) =>
        /\ WinnerIsFirstOfMaximal(calc.args.v, calc.out)
        /\ calc.out.reason.max_relpath.nearest_to = Maximum(calc.args.v)
        /\ calc.out.reason.max_relpath.exact <=>
               IsPowerOfTwo(Maximum(calc.args.v)[2])

\* ME4U and IOU2 tie at 3.24 above UOME: IOU2 wins, both are in the tied set
C17_TieGoesToIOU2 ==
    /\ calc.fn = "select"
    /\ calc.args.v = <<Rat(324, 100), Rat(324, 100), Dec(1)>>
    /\ calc.out.winner = "IOU2"
    /\ calc.out.reason.tied_coins = <<"IOU2", "ME4U">>
    /\ ~calc.out.reason.max_relpath.exact

\* C18: select reports default_first_day, with winner IOU2, exactly when all
\* three values are null, max_positive_alphabetical_tiebreak exactly when
\* the maximum of the non-null values is above 0, and least_negative exactly
\* when there is a non-null value and the maximum is 0 or below.
C18_RuleByMaximum ==
    calc.fn = "select" =>
        LET v == calc.args.v
            rule == calc.out.reason.selection_rule
            positive == IF NonNull(v) = {} THEN FALSE ELSE RGt(Maximum(v), Dec(0))
        IN  /\ rule = "default_first_day" <=> NonNull(v) = {}
            /\ rule = "default_first_day" => calc.out.winner = "IOU2"
            /\ rule = "max_positive_alphabetical_tiebreak" <=> positive
            /\ rule = "least_negative" <=> (NonNull(v) # {} /\ ~positive)

\* the greatest value is exactly 0 and the rule reported is least_negative
C18_ZeroIsLeastNegative ==
    /\ calc.fn = "select"
    /\ calc.args.v = <<Dec(0), Rat(-85, 100), Null>>
    /\ calc.out.winner = "ME4U"
    /\ calc.out.reason.selection_rule = "least_negative"

\* C19: compute_relativepath is null when dist_previous is null or zero,
\* else (dist_previous - dist_current) / dist_previous * 100, which is
\* positive exactly when dist_current is below dist_previous; (80, 100)
\* gives 20 and (100, 80) gives -25.
C19_RelativepathFormula ==
    calc.fn = "compute_relativepath" =>
        LET dist_today == calc.args.v[1]
            dist_prev == calc.args.v[2]
        IN  IF IsNull(dist_prev) \/ dist_prev = Dec(0)
            THEN IsNull(calc.out)
            ELSE /\ ~IsNull(calc.out)
                 /\ RMul(calc.out, dist_prev) = RMul(RSub(dist_prev, dist_today), Dec(100))
                 /\ RGt(calc.out, Dec(0)) <=> RLt(dist_today, dist_prev)
                 /\ (dist_today = Dec(80) /\ dist_prev = Dec(100)) => calc.out = Dec(20)
                 /\ (dist_today = Dec(100) /\ dist_prev = Dec(80)) => calc.out = Dec(-25)

\* a distance grown from 80 to 100 gave -25
C19_DeteriorationIsNegative ==
    /\ calc.fn = "compute_relativepath"
    /\ calc.args.v = <<Dec(100), Dec(80)>>
    /\ calc.out = Dec(-25)

\* the state the specification gives a deviation |invariant - 1|
StateOfDeviation(deviation) ==
    IF RLt(deviation, Rat(1, 100)) THEN "OK"
    ELSE IF RLt(deviation, Rat(5, 100)) THEN "WARN"
    ELSE "CRITICAL"

\* C20 as stated: compute_state, and compute_kolmo_metrics of the backfill,
\* give OK below 1%, WARN from 1% to below 5%, CRITICAL from 5% on.
C20_StateThresholds ==
    /\ calc.fn = "compute_state" =>
           calc.out = StateOfDeviation(RAbs(RSub(calc.args.v[1], Dec(1))))
    /\ (calc.fn = "compute_kolmo_metrics" /\ ~calc.out.raised) =>
           calc.out.kolmo_state =
               StateOfDeviation(RAbs(RSub(calc.out.kolmo_value, Dec(1))))

C26_LoggedKindIsRaisedKind ==
    LET m == mgr[1]
    IN  \A i \in 1..Len(m.surfaced) :
            m.surfaced[i].cls # "return" =>
                /\ m.calls[i].error_type = m.surfaced[i].error_type
                /\ \A j \in 1..Len(m.surfaced) :
                       (/\ m.surfaced[j].cls # "return"
                        /\ m.surfaced[j].error_type # m.surfaced[i].error_type) =>
                           m.calls[j].error_type # m.calls[i].error_type

\* C27 as stated: whenever backfill() inserts a date, the previous distances
\* and previous rates its metrics were computed from are those of the
\* mcol1_compute_data row of the greatest earlier date the table holds at
\* that moment, also when a date in between was skipped because it had a
\* row already.
C27_ContextIsLatestStoredRow ==
    [][(/\ backfill.pc = "insert"
        /\ Len(backfill'.log) = Len(backfill.log) + 1
        /\ backfill'.log[Len(backfill'.log)].outcome = "inserted") =>
           /\ backfill.prev_distances =
                  get_previous_distances(compute_data, backfill.rate_date)
           /\ backfill.prev_rates =
                  get_previous_rates(compute_data, backfill.rate_date)]_vars

\* C28 as stated: in backfill(), when the metrics of a date have been
\* computed, the mcol1_external_data row of the date is in the store
\* already.
C28_RawStoredBeforeMetrics ==
    /\ backfill.pc = "insert" => backfill.rate_date \in DOMAIN external_data
    /\ \A i \in DOMAIN backfill.log :
           ~backfill.log[i].metrics.raised =>
               backfill.log[i].date \in DOMAIN external_data

\* C29 as stated: whatever batch raw fetches and backfills have run, every
\* mcol1_compute_data row has a mcol1_external_data row of the same date
\* and carries its mcol1_snapshot_id.
C29_MetricsCarryRawSnapshotId ==
    \A d \in DOMAIN compute_data :
        /\ d \in DOMAIN external_data
        /\ compute_data[d].mcol1_snapshot_id = external_data[d].mcol1_snapshot_id

\* C30 as stated: the response built from a stored row gives each distance
\* and each RelativePath as stored: null exactly when the column is null,
\* and otherwise the double nearest to the stored value, a stored 0 being
\* returned as 0.
C30_ResponseReturnsStoredValues ==
    calc.fn = "_row_to_response" =>
        \A c \in DOMAIN calc.args.v :
            /\ IsNull(calc.out[c].nearest_to) <=> IsNull(calc.args.v[c])
            /\ calc.out[c].nearest_to = calc.args.v[c]

====
